---------------------------- MODULE Spec2Model ----------------------------
(***************************************************************************)
(* Model of the eload firmware: the input decoders and the LED driver of   *)
(* firmware/src/lib.rs and the scheduler state, the screens and the        *)
(* control loop of firmware/src/main.rs.                                   *)
(*                                                                         *)
(* Each component is checked under a specification of its own, in which    *)
(* its public operations are called in any order with any input:           *)
(*   SpecButton   LongPressButton::scan                                    *)
(*   SpecEncoder  Encoder::scan                                            *)
(*   SpecLed      Led::blink_short / blink_long / update / toggle          *)
(*   SpecState    State::increase_freq / decrease_freq / tick              *)
(*   Spec         main: one action per iteration of the event loop         *)
(***************************************************************************)
EXTENDS Integers, Sequences, FiniteSets, TLC

VARIABLES
    \* const generics of lib.rs
    control_rate_hz,    \* CONTROL_RATE_HZ of LongPressButton and Led
    active_low,         \* ACTIVE_LOW of Led
    \* LongPressButton
    state,              \* LongPressButton.state
    value,              \* what the last scan() returned
    pin,                \* the level the last scan() sampled (TRUE = pressed)
    run,                \* history: pressed scans in the current / last hold
    idle,               \* history: released scans since that hold (0, 1, 2 = more)
    nPress,             \* history: Press events since that hold began
    nLong,              \* history: LongPress events since that hold began
    \* Encoder
    previous_state,     \* Encoder.previous_state
    encoder_value,      \* what the last Encoder::scan() returned
    samples,            \* history: the (a, b) samples scanned so far
    events,             \* history: what each of those scans returned
    \* Led
    cycles,             \* Led.cycles
    led_pin,            \* level of the output line: "high" / "low"
    pulse,              \* history: update() calls since blink_short() at cycles = 0
    \* State
    ticks_max,          \* State.ticks_max
    tick,               \* State.tick
    fired,              \* what the last tick() returned
    calls,              \* history: tick() calls in the current window
    arith_ok,           \* history: no u32 operation has overflowed so far
    \* main
    current_screen,     \* Screens: [tag, redraw_ticks]
    lcd,                \* what the display shows: [title, readout]
    encoder_event,      \* this iteration's encoder_event
    encoder_button_event, \* this iteration's encoder_button_event
    draw_calls,         \* draw() calls of the last iteration (of startup at first)
    readout_writes,     \* writes of the ticks readout in the last iteration
    toggles,            \* led.toggle() calls of the last iteration
    draw_balance,       \* history: draw() calls so far minus LongPress events so far
    prev_ticks_max,     \* history: ticks_max before the last operation
    prev_tick,          \* history: tick before the last operation
    since_toggle,       \* history: iterations since the last led.toggle()
    last_event,         \* history: the event the last handle_input() was given
    cw_only,            \* history: Cw events handled so far, -1 once a Ccw was handled
    \* bookkeeping
    op                  \* the operation that ran last

genVars   == <<control_rate_hz, active_low>>
btnVars   == <<state, value>>
btnHist   == <<pin, run, idle, nPress, nLong>>
encVars   == <<previous_state, encoder_value>>
encHist   == <<samples, events>>
ledVars   == <<cycles, led_pin>>
ledHist   == <<pulse>>
stVars    == <<ticks_max, tick, fired>>
stHist    == <<calls, arith_ok>>
mainVars  == <<current_screen, lcd, encoder_event, encoder_button_event,
               draw_calls, readout_writes, toggles, draw_balance,
               prev_ticks_max, prev_tick, since_toggle, last_event, cw_only>>

vars == <<genVars, btnVars, btnHist, encVars, encHist, ledVars, ledHist,
          stVars, stHist, mainVars, op>>

----------------------------------------------------------------------------
(* Bounds and program constants                                            *)

\* main.rs: const CONTROL_RATE_HZ
CONTROL_RATE_HZ == 1000

\* The control rates the components are instantiated with: the smallest ones,
\* the one main.rs uses and one above 1000, where DEBOUNCE_TICKS becomes 2.
Rates == {1, 2, CONTROL_RATE_HZ, 2 * CONTROL_RATE_HZ}

\* The control rate of the event loop's model. main.rs runs at CONTROL_RATE_HZ;
\* in the loop the rate only sets LONGPRESS_TICKS (DEBOUNCE_TICKS is 1 for
\* every rate below 2000), so the loop is checked at a scaled-down rate.
LoopRateHz == 3

\* The button is held for at most LONGPRESS_TICKS + DEBOUNCE_TICKS + HoldSlack scans.
HoldSlack == 8

\* The encoder is scanned at most MaxScans times under SpecEncoder.
MaxScans == 5

Max(a, b) == IF a > b THEN a ELSE b
Min(a, b) == IF a < b THEN a ELSE b

----------------------------------------------------------------------------
(* lib.rs: LongPressButton                                                 *)

\* const fn max(a: u32, b: u32) -> u32
max(a, b) == IF a > b THEN a ELSE b

LONGPRESS_TICKS == max(1, control_rate_hz)
DEBOUNCE_TICKS  == max(1, control_rate_hz \div 1000)

\* enum LongPressButtonState
Depressed    == [tag |-> "Depressed", i |-> 0]
Candidate(i) == [tag |-> "Candidate", i |-> i]
Pressed(i)   == [tag |-> "Pressed", i |-> i]
StillPressed == [tag |-> "StillPressed", i |-> 0]

\* Mutant of ScanNext: a long press goes back to Pressed(0), there is no latch.
ScanNextNoLatch(pressed, st) ==
    IF pressed
    THEN CASE st.tag = "Depressed"
                -> [state |-> Candidate(0), value |-> "None"]
           [] st.tag = "Candidate" /\ st.i > DEBOUNCE_TICKS
                -> [state |-> Pressed(0), value |-> "None"]
           [] st.tag = "Candidate" /\ ~(st.i > DEBOUNCE_TICKS)
                -> [state |-> Candidate(st.i + 1), value |-> "None"]
           [] st.tag = "Pressed" /\ st.i > LONGPRESS_TICKS
                -> [state |-> Pressed(0), value |-> "LongPress"]
           [] st.tag = "Pressed" /\ ~(st.i > LONGPRESS_TICKS)
                -> [state |-> Pressed(st.i + 1), value |-> "None"]
           [] st.tag = "StillPressed"
                -> [state |-> StillPressed, value |-> "None"]
    ELSE IF st.tag = "Pressed"
         THEN [state |-> Depressed, value |-> "Press"]
         ELSE [state |-> Depressed, value |-> "None"]

\* Mutant of ScanNext: the latched state reports LongPress on every scan.
ScanNextRepeat(pressed, st) ==
    IF pressed
    THEN CASE st.tag = "Depressed"
                -> [state |-> Candidate(0), value |-> "None"]
           [] st.tag = "Candidate" /\ st.i > DEBOUNCE_TICKS
                -> [state |-> Pressed(0), value |-> "None"]
           [] st.tag = "Candidate" /\ ~(st.i > DEBOUNCE_TICKS)
                -> [state |-> Candidate(st.i + 1), value |-> "None"]
           [] st.tag = "Pressed" /\ st.i > LONGPRESS_TICKS
                -> [state |-> StillPressed, value |-> "LongPress"]
           [] st.tag = "Pressed" /\ ~(st.i > LONGPRESS_TICKS)
                -> [state |-> Pressed(st.i + 1), value |-> "None"]
           [] st.tag = "StillPressed"
                -> [state |-> StillPressed, value |-> "LongPress"]
    ELSE IF st.tag = "Pressed"
         THEN [state |-> Depressed, value |-> "Press"]
         ELSE [state |-> Depressed, value |-> "None"]

\* Mutant of ScanNext: the catch-all release arm comes first, so that a release
\* from Pressed reports nothing.
ScanNextNoPress(pressed, st) ==
    IF pressed
    THEN CASE st.tag = "Depressed"
                -> [state |-> Candidate(0), value |-> "None"]
           [] st.tag = "Candidate" /\ st.i > DEBOUNCE_TICKS
                -> [state |-> Pressed(0), value |-> "None"]
           [] st.tag = "Candidate" /\ ~(st.i > DEBOUNCE_TICKS)
                -> [state |-> Candidate(st.i + 1), value |-> "None"]
           [] st.tag = "Pressed" /\ st.i > LONGPRESS_TICKS
                -> [state |-> StillPressed, value |-> "LongPress"]
           [] st.tag = "Pressed" /\ ~(st.i > LONGPRESS_TICKS)
                -> [state |-> Pressed(st.i + 1), value |-> "None"]
           [] st.tag = "StillPressed"
                -> [state |-> StillPressed, value |-> "None"]
    ELSE [state |-> Depressed, value |-> "None"]

\* Mutant of ScanNext: the thresholds are compared with >= instead of >.
ScanNextGe(pressed, st) ==
    IF pressed
    THEN CASE st.tag = "Depressed"
                -> [state |-> Candidate(0), value |-> "None"]
           [] st.tag = "Candidate" /\ st.i >= DEBOUNCE_TICKS
                -> [state |-> Pressed(0), value |-> "None"]
           [] st.tag = "Candidate" /\ ~(st.i >= DEBOUNCE_TICKS)
                -> [state |-> Candidate(st.i + 1), value |-> "None"]
           [] st.tag = "Pressed" /\ st.i >= LONGPRESS_TICKS
                -> [state |-> StillPressed, value |-> "LongPress"]
           [] st.tag = "Pressed" /\ ~(st.i >= LONGPRESS_TICKS)
                -> [state |-> Pressed(st.i + 1), value |-> "None"]
           [] st.tag = "StillPressed"
                -> [state |-> StillPressed, value |-> "None"]
    ELSE IF st.tag = "Pressed"
         THEN [state |-> Depressed, value |-> "Press"]
         ELSE [state |-> Depressed, value |-> "None"]

\* Mutant of ScanNext: a release from Candidate reports Press as one from Pressed does.
ScanNextBounce(pressed, st) ==
    IF pressed
    THEN CASE st.tag = "Depressed"
                -> [state |-> Candidate(0), value |-> "None"]
           [] st.tag = "Candidate" /\ st.i > DEBOUNCE_TICKS
                -> [state |-> Pressed(0), value |-> "None"]
           [] st.tag = "Candidate" /\ ~(st.i > DEBOUNCE_TICKS)
                -> [state |-> Candidate(st.i + 1), value |-> "None"]
           [] st.tag = "Pressed" /\ st.i > LONGPRESS_TICKS
                -> [state |-> StillPressed, value |-> "LongPress"]
           [] st.tag = "Pressed" /\ ~(st.i > LONGPRESS_TICKS)
                -> [state |-> Pressed(st.i + 1), value |-> "None"]
           [] st.tag = "StillPressed"
                -> [state |-> StillPressed, value |-> "None"]
    ELSE IF st.tag = "Pressed" \/ st.tag = "Candidate"
         THEN [state |-> Depressed, value |-> "Press"]
         ELSE [state |-> Depressed, value |-> "None"]

\* The match of LongPressButton::scan: (pressed, self.state) -> (state, value),
\* the guards made exclusive in the order the arms are tried.
ScanNext(pressed, st) ==
    IF pressed
    THEN CASE st.tag = "Depressed"
                -> [state |-> Candidate(0), value |-> "None"]
           [] st.tag = "Candidate" /\ st.i > DEBOUNCE_TICKS
                -> [state |-> Pressed(0), value |-> "None"]
           [] st.tag = "Candidate" /\ ~(st.i > DEBOUNCE_TICKS)
                -> [state |-> Candidate(st.i + 1), value |-> "None"]
           [] st.tag = "Pressed" /\ st.i > LONGPRESS_TICKS
                -> [state |-> StillPressed, value |-> "LongPress"]
           [] st.tag = "Pressed" /\ ~(st.i > LONGPRESS_TICKS)
                -> [state |-> Pressed(st.i + 1), value |-> "None"]
           [] st.tag = "StillPressed"
                -> [state |-> StillPressed, value |-> "None"]
    ELSE IF st.tag = "Pressed"
         THEN [state |-> Depressed, value |-> "Press"]
         ELSE [state |-> Depressed, value |-> "None"]

\* The longest hold the environment makes.
MaxHold == LONGPRESS_TICKS + DEBOUNCE_TICKS + HoldSlack

\* LongPressButton::scan, the pin reading `pressed`.
Scan(pressed) ==
    LET r     == ScanNext(pressed, state)
        first == pressed /\ idle > 0      \* this scan begins a hold
        p0    == IF first THEN 0 ELSE nPress
        l0    == IF first THEN 0 ELSE nLong
    IN  /\ state' = r.state
        /\ value' = r.value
        /\ pin' = pressed
        /\ run' = IF pressed THEN (IF first THEN 1 ELSE run + 1) ELSE run
        /\ idle' = IF pressed THEN 0 ELSE Min(idle + 1, 2)
        /\ nPress' = p0 + (IF r.value = "Press" THEN 1 ELSE 0)
        /\ nLong' = l0 + (IF r.value = "LongPress" THEN 1 ELSE 0)

ButtonScan ==
    /\ \E pressed \in BOOLEAN :
          /\ pressed /\ idle = 0 => run < MaxHold
          /\ Scan(pressed)
    /\ op' = "scan"
    /\ UNCHANGED <<genVars, encVars, encHist, ledVars, ledHist, stVars, stHist, mainVars>>

----------------------------------------------------------------------------
(* lib.rs: Encoder                                                         *)

\* Mutant of EncoderValueOf: the directions are swapped.
EncoderValueSwapped(prev, a, b) ==
    IF <<a, b>> = <<TRUE, TRUE>>
    THEN CASE prev = <<FALSE, TRUE>> -> "Ccw"
           [] prev = <<TRUE, FALSE>> -> "Cw"
           [] OTHER                  -> "None"
    ELSE "None"

\* Mutant of EncoderValueOf: any change into (true, true) is a step, also the one
\* from (false, false).
EncoderValueAnyEdge(prev, a, b) ==
    IF <<a, b>> = <<TRUE, TRUE>>
    THEN CASE prev = <<FALSE, TRUE>>  -> "Cw"
           [] prev = <<TRUE, FALSE>>  -> "Ccw"
           [] prev = <<FALSE, FALSE>> -> "Cw"
           [] OTHER                   -> "None"
    ELSE "None"

\* What Encoder::scan returns for the samples a, b when previous_state was prev.
EncoderValueOf(prev, a, b) ==
    IF <<a, b>> = <<TRUE, TRUE>>
    THEN CASE prev = <<FALSE, TRUE>> -> "Cw"
           [] prev = <<TRUE, FALSE>> -> "Ccw"
           [] OTHER                  -> "None"
    ELSE "None"

\* Mutant of EncoderPrevious: previous_state is updated only when no event fired.
EncoderPreviousKeptOnEvent(prev, a, b) ==
    IF EncoderValueOf(prev, a, b) = "None" THEN <<a, b>> ELSE prev

\* What Encoder::scan leaves in previous_state.
EncoderPrevious(prev, a, b) == <<a, b>>

\* Encoder::scan, the pins reading a and b (TRUE = low, the active level).
EncoderScanOf(a, b) ==
    LET prev == previous_state
    IN  /\ previous_state' = EncoderPrevious(prev, a, b)
        /\ encoder_value' = EncoderValueOf(prev, a, b)
        /\ samples' = Append(samples, <<a, b>>)
        /\ events' = Append(events, EncoderValueOf(prev, a, b))

EncoderScan ==
    /\ Len(samples) < MaxScans
    /\ \E a \in BOOLEAN, b \in BOOLEAN : EncoderScanOf(a, b)
    /\ op' = "scan"
    /\ UNCHANGED <<genVars, btnVars, btnHist, ledVars, ledHist, stVars, stHist, mainVars>>

----------------------------------------------------------------------------
(* lib.rs: Led                                                             *)

\* u32::max, u32::min, u32::saturating_sub
U32Max(a, b) == IF a >= b THEN a ELSE b
U32Min(a, b) == IF a <= b THEN a ELSE b
SaturatingSub(a, b) == IF a >= b THEN a - b ELSE 0

\* 25 * (CONTROL_RATE_HZ / 1000).max(1) and 100 * (CONTROL_RATE_HZ / 1000).max(1)
ShortCycles == 25 * U32Max(control_rate_hz \div 1000, 1)
LongCycles  == 100 * U32Max(control_rate_hz \div 1000, 1)

\* Mutant of BlinkShortOf: the counter is set, not raised.
BlinkShortAssigns(c) == ShortCycles

\* Led::blink_short: the new value of cycles.
BlinkShortOf(c) == U32Max(c, ShortCycles)

\* Led::blink_long: the new value of cycles.
BlinkLongOf(c) == U32Max(c, LongCycles)

\* Mutant of LedLevel: the line is written from the counter before the decrement.
LedLevelBeforeDecrement(c, low) ==
    IF (c + 1 > 0) # low THEN "high" ELSE "low"

\* Led::update: the level written for the decremented counter c; `enabled` is
\* (cycles > 0) ^ ACTIVE_LOW, and set_high() is called when it is true.
LedLevel(c, low) ==
    IF (c > 0) # low THEN "high" ELSE "low"

\* StatefulOutputPin::toggle
Toggled(level) == IF level = "high" THEN "low" ELSE "high"

\* The LED is lit: the line is at its active level.
LedActive == IF active_low THEN led_pin = "low" ELSE led_pin = "high"

\* Updates are counted up to PulseSlack past the end of a short pulse.
PulseSlack == 3

BlinkShort ==
    /\ cycles' = BlinkShortOf(cycles)
    /\ pulse' = IF cycles = 0 THEN 0 ELSE -1
    /\ op' = "blink_short"
    /\ UNCHANGED <<led_pin, genVars, btnVars, btnHist, encVars, encHist, stVars, stHist, mainVars>>

BlinkLong ==
    /\ cycles' = BlinkLongOf(cycles)
    /\ pulse' = -1
    /\ op' = "blink_long"
    /\ UNCHANGED <<led_pin, genVars, btnVars, btnHist, encVars, encHist, stVars, stHist, mainVars>>

LedUpdate ==
    /\ cycles' = SaturatingSub(cycles, 1)
    /\ led_pin' = LedLevel(cycles', active_low)
    /\ pulse' = IF pulse = -1 THEN -1 ELSE Min(pulse + 1, ShortCycles + PulseSlack)
    /\ op' = "update"
    /\ UNCHANGED <<genVars, btnVars, btnHist, encVars, encHist, stVars, stHist, mainVars>>

LedToggle ==
    /\ led_pin' = Toggled(led_pin)
    /\ pulse' = -1
    /\ op' = "toggle"
    /\ UNCHANGED <<cycles, genVars, btnVars, btnHist, encVars, encHist, stVars, stHist, mainVars>>

----------------------------------------------------------------------------
(* main.rs: State                                                          *)

\* Mutant of DecreaseFreqOf: max instead of min.
DecreaseFreqMax(tm) == [ticks_max |-> U32Max(tm + 20, 1000), ok |-> TRUE]

\* Mutant of IncreaseFreqOf: the floor is missing.
IncreaseFreqNoFloor(tm) ==
    IF tm >= 20 THEN [ticks_max |-> tm - 20, ok |-> TRUE]
                ELSE [ticks_max |-> tm, ok |-> FALSE]

\* State::increase_freq: (ticks_max - 20).max(20). The u32 subtraction overflows
\* below 20: a build with overflow checks panics there and one without wraps to a
\* value above 2^32 - 21; either way `ok` records it and ticks_max is left alone.
IncreaseFreqOf(tm) ==
    IF tm >= 20 THEN [ticks_max |-> U32Max(tm - 20, 20), ok |-> TRUE]
                ELSE [ticks_max |-> tm, ok |-> FALSE]

\* State::decrease_freq: (ticks_max + 20).min(1000). The addition overflows only
\* above 2^32 - 21, far beyond the values of this model.
DecreaseFreqOf(tm) == [ticks_max |-> U32Min(tm + 20, 1000), ok |-> TRUE]

\* Mutant of TickOf: the counter wraps only when it is equal to ticks_max.
TickOfEq(t, tm) ==
    IF t = tm THEN [tick |-> 0, fired |-> TRUE] ELSE [tick |-> t + 1, fired |-> FALSE]

\* Mutant of TickOf: > instead of >=.
TickOfStrict(t, tm) ==
    IF t > tm THEN [tick |-> 0, fired |-> TRUE]
              ELSE [tick |-> t + 1, fired |-> FALSE]

\* State::tick
TickOf(t, tm) ==
    IF t >= tm THEN [tick |-> 0, fired |-> TRUE]
               ELSE [tick |-> t + 1, fired |-> FALSE]

\* `calls` counts the tick() calls of the current window: a window begins with a
\* call made at tick = 0, and is void (-1) once ticks_max has changed inside it.
CallsAfterChange(tm) ==
    IF tm = ticks_max \/ tick = 0 THEN calls ELSE -1

IncreaseFreq ==
    LET r == IncreaseFreqOf(ticks_max)
    IN  /\ ticks_max' = r.ticks_max
        /\ arith_ok' = (arith_ok /\ r.ok)
        /\ calls' = CallsAfterChange(r.ticks_max)
        /\ op' = "increase_freq"
        /\ UNCHANGED <<tick, fired, genVars, btnVars, btnHist, encVars, encHist,
                       ledVars, ledHist, mainVars>>

DecreaseFreq ==
    LET r == DecreaseFreqOf(ticks_max)
    IN  /\ ticks_max' = r.ticks_max
        /\ arith_ok' = (arith_ok /\ r.ok)
        /\ calls' = CallsAfterChange(r.ticks_max)
        /\ op' = "decrease_freq"
        /\ UNCHANGED <<tick, fired, genVars, btnVars, btnHist, encVars, encHist,
                       ledVars, ledHist, mainVars>>

Tick ==
    LET r == TickOf(tick, ticks_max)
    IN  /\ tick' = r.tick
        /\ fired' = r.fired
        /\ calls' = IF tick = 0 THEN 1 ELSE IF calls = -1 THEN -1 ELSE calls + 1
        /\ op' = "tick"
        /\ UNCHANGED <<ticks_max, arith_ok, genVars, btnVars, btnHist, encVars, encHist,
                       ledVars, ledHist, mainVars>>

----------------------------------------------------------------------------
(* main.rs: the screens                                                    *)

\* enum Screens: MainScreen has no field, TicksScreen has redraw_ticks.
MainScreen == [tag |-> "Main"]
TicksScreen(redraw) == [tag |-> "Ticks", redraw_ticks |-> redraw]

\* TicksScreen::default
TicksScreenDefault == TicksScreen(TRUE)

\* The decimal digits of n, most significant first.
RECURSIVE Digits(_)
Digits(n) == IF n < 10 THEN <<n>> ELSE Append(Digits(n \div 10), n % 10)

\* The character of the digit d.
DigitChar(d) == <<"0", "1", "2", "3", "4", "5", "6", "7", "8", "9">>[d + 1]

\* write!(&mut data, "{:4}", n) into a String<4>: the digits of n, padded with
\* spaces on the left to 4 characters. With more than 4 digits the write fails
\* and unwrap() panics: "overflow".
Format4(n) ==
    LET d == Digits(n)
    IN  IF Len(d) > 4 THEN "overflow"
        ELSE [i \in 1..4 |-> IF i <= 4 - Len(d) THEN " "
                                               ELSE DigitChar(d[i - (4 - Len(d))])]

\* The display: the title written at the home position after clear(), and the
\* 4 characters at columns cols - 4 .. cols - 1 of the first row (<<>>: cleared).
Lcd(title, readout) == [title |-> title, readout |-> readout]

\* Mutant of ScreenUpdate: the readout is written but redraw_ticks is not cleared.
ScreenUpdateKeepsFlag(scr, disp, tm) ==
    IF scr.tag = "Ticks" /\ scr.redraw_ticks
    THEN [screen |-> scr,
          lcd    |-> Lcd(disp.title, Format4(tm)),
          writes |-> 1]
    ELSE [screen |-> scr, lcd |-> disp, writes |-> 0]

\* TicksScreen::update, and the default (empty) update of MainScreen:
\* the screen and the display after it, and the readout writes it made.
ScreenUpdate(scr, disp, tm) ==
    IF scr.tag = "Ticks" /\ scr.redraw_ticks
    THEN [screen |-> TicksScreen(FALSE),
          lcd    |-> Lcd(disp.title, Format4(tm)),
          writes |-> 1]
    ELSE [screen |-> scr, lcd |-> disp, writes |-> 0]

\* MainScreen::draw and TicksScreen::draw (which ends with self.update).
ScreenDraw(scr, disp, tm) ==
    IF scr.tag = "Main"
    THEN [screen |-> scr, lcd |-> Lcd("Main Panel", <<>>), writes |-> 0]
    ELSE ScreenUpdate(scr, Lcd("Ticks Panel", <<>>), tm)

\* Mutant of HandleInput: the two directions are swapped.
HandleInputSwapped(scr, ev, tm) ==
    IF scr.tag = "Ticks"
    THEN CASE ev = <<"Encoder", "Cw">>  -> DecreaseFreqOf(tm)
           [] ev = <<"Encoder", "Ccw">> -> IncreaseFreqOf(tm)
           [] OTHER                     -> [ticks_max |-> tm, ok |-> TRUE]
    ELSE [ticks_max |-> tm, ok |-> TRUE]

\* Mutant of HandleInput: the events reach State whatever the screen.
HandleInputAnyScreen(scr, ev, tm) ==
    CASE ev = <<"Encoder", "Cw">>  -> IncreaseFreqOf(tm)
      [] ev = <<"Encoder", "Ccw">> -> DecreaseFreqOf(tm)
      [] OTHER                     -> [ticks_max |-> tm, ok |-> TRUE]

\* TicksScreen::handle_input, and the default (empty) handle_input of MainScreen:
\* ticks_max after the event ev, and whether the arithmetic stayed in range.
HandleInput(scr, ev, tm) ==
    IF scr.tag = "Ticks"
    THEN CASE ev = <<"Encoder", "Cw">>  -> IncreaseFreqOf(tm)
           [] ev = <<"Encoder", "Ccw">> -> DecreaseFreqOf(tm)
           [] OTHER                     -> [ticks_max |-> tm, ok |-> TRUE]
    ELSE [ticks_max |-> tm, ok |-> TRUE]

\* Mutant of NextScreen: Ticks is never left.
NextScreenStuck(scr) ==
    IF scr.tag = "Main" THEN TicksScreenDefault ELSE TicksScreenDefault

\* The navigation match of main.
NextScreen(scr) ==
    IF scr.tag = "Main" THEN TicksScreenDefault ELSE MainScreen

----------------------------------------------------------------------------
(* main.rs: the event loop                                                 *)

\* The encoder is not turned further once ticks_max has reached MaxTicksMax.
MaxTicksMax == 40

\* Clockwise events are counted up to CwCount.
CwCount == 3

\* events.into_iter().flatten(): the encoder's event, then the button's.
InputEvents(enc, btn) ==
    (IF enc = "None" THEN <<>> ELSE << <<"Encoder", enc>> >>)
    \o (IF btn = "None" THEN <<>> ELSE << <<"EncoderButton", btn>> >>)

\* for e in events { current_screen.handle_input(e, &mut state) }
RECURSIVE HandleAll(_, _, _)
HandleAll(scr, evs, r) ==
    IF evs = <<>> THEN r
    ELSE LET h == HandleInput(scr, Head(evs), r.ticks_max)
         IN  HandleAll(scr, Tail(evs), [ticks_max |-> h.ticks_max, ok |-> r.ok /\ h.ok])

\* Mutant of Iteration: tick() runs before the events are handled, so it compares
\* with the ticks_max of the iteration before.
IterationTickFirst(a, b, pressed) ==
    LET enc     == EncoderValueOf(previous_state, a, b)
        btn     == ScanNext(pressed, state)
        handled == HandleAll(current_screen, InputEvents(enc, btn.value),
                             [ticks_max |-> ticks_max, ok |-> TRUE])
        nav     == btn.value = "LongPress"
        painted == IF nav
                   THEN ScreenDraw(NextScreen(current_screen), lcd, handled.ticks_max)
                   ELSE ScreenUpdate(current_screen, lcd, handled.ticks_max)
        t       == TickOf(tick, ticks_max)
    IN  \* Scanning inputs
        /\ previous_state' = EncoderPrevious(previous_state, a, b)
        /\ encoder_value' = enc
        /\ encoder_event' = enc
        /\ state' = btn.state
        /\ value' = btn.value
        /\ encoder_button_event' = btn.value
        \* Updating app state based on events
        /\ ticks_max' = handled.ticks_max
        /\ arith_ok' = (arith_ok /\ handled.ok)
        \* Navigation between panels and updating UI
        /\ current_screen' = painted.screen
        /\ lcd' = painted.lcd
        /\ draw_calls' = IF nav THEN 1 ELSE 0
        /\ draw_balance' = draw_balance + draw_calls' - (IF nav THEN 1 ELSE 0)
        /\ readout_writes' = painted.writes
        \* Controlling external world
        /\ tick' = t.tick
        /\ fired' = t.fired
        /\ led_pin' = IF t.fired THEN Toggled(led_pin) ELSE led_pin
        /\ toggles' = IF t.fired THEN 1 ELSE 0

\* One iteration of the loop of main, the pins reading a, b (encoder) and
\* pressed (button).
Iteration(a, b, pressed) ==
    LET enc     == EncoderValueOf(previous_state, a, b)
        btn     == ScanNext(pressed, state)
        handled == HandleAll(current_screen, InputEvents(enc, btn.value),
                             [ticks_max |-> ticks_max, ok |-> TRUE])
        nav     == btn.value = "LongPress"
        painted == IF nav
                   THEN ScreenDraw(NextScreen(current_screen), lcd, handled.ticks_max)
                   ELSE ScreenUpdate(current_screen, lcd, handled.ticks_max)
        t       == TickOf(tick, handled.ticks_max)
    IN  \* Scanning inputs
        /\ previous_state' = EncoderPrevious(previous_state, a, b)
        /\ encoder_value' = enc
        /\ encoder_event' = enc
        /\ state' = btn.state
        /\ value' = btn.value
        /\ encoder_button_event' = btn.value
        \* Updating app state based on events
        /\ ticks_max' = handled.ticks_max
        /\ arith_ok' = (arith_ok /\ handled.ok)
        \* Navigation between panels and updating UI
        /\ current_screen' = painted.screen
        /\ lcd' = painted.lcd
        /\ draw_calls' = IF nav THEN 1 ELSE 0
        /\ draw_balance' = draw_balance + draw_calls' - (IF nav THEN 1 ELSE 0)
        /\ readout_writes' = painted.writes
        \* Controlling external world
        /\ tick' = t.tick
        /\ fired' = t.fired
        /\ led_pin' = IF t.fired THEN Toggled(led_pin) ELSE led_pin
        /\ toggles' = IF t.fired THEN 1 ELSE 0

LoopIteration ==
    /\ \E a \in BOOLEAN, b \in BOOLEAN, pressed \in BOOLEAN :
          /\ Iteration(a, b, pressed)
          /\ ticks_max' <= MaxTicksMax
    /\ prev_ticks_max' = ticks_max
    /\ prev_tick' = tick
    /\ since_toggle' = IF toggles' = 1 THEN 0 ELSE since_toggle + 1
    /\ op' = "loop"
    /\ UNCHANGED <<genVars, cycles, btnHist, encHist, ledHist, calls, last_event, cw_only>>

----------------------------------------------------------------------------
(* main.rs: the operations of the active screen, one call at a time        *)

\* enum InputEvent
InputEventSet ==
    { <<"Encoder", "Cw">>, <<"Encoder", "Ccw">>,
      <<"EncoderButton", "Press">>, <<"EncoderButton", "LongPress">> }

\* current_screen.handle_input(e, &mut state)
HandleEvent ==
    /\ \E ev \in InputEventSet :
          LET h == HandleInput(current_screen, ev, ticks_max)
          IN  /\ ticks_max' = h.ticks_max
              /\ arith_ok' = (arith_ok /\ h.ok)
              /\ last_event' = ev
              /\ cw_only' = IF ev = <<"Encoder", "Ccw">> THEN -1
                            ELSE IF ev = <<"Encoder", "Cw">> /\ cw_only >= 0
                                 THEN Min(cw_only + 1, CwCount)
                                 ELSE cw_only
    /\ prev_ticks_max' = ticks_max
    /\ prev_tick' = tick
    /\ op' = "handle_input"
    /\ UNCHANGED <<genVars, btnVars, btnHist, encVars, encHist, ledVars, ledHist,
                   tick, fired, calls, current_screen, lcd, encoder_event,
                   encoder_button_event, draw_calls, readout_writes, toggles,
                   draw_balance, since_toggle>>

\* The navigation of main: current_screen = <next>; current_screen.draw(..)
Navigate ==
    LET painted == ScreenDraw(NextScreen(current_screen), lcd, ticks_max)
    IN  /\ current_screen' = painted.screen
        /\ lcd' = painted.lcd
        /\ draw_calls' = 1
        /\ readout_writes' = painted.writes
        /\ prev_ticks_max' = ticks_max
        /\ prev_tick' = tick
        /\ op' = "draw"
        /\ UNCHANGED <<genVars, btnVars, btnHist, encVars, encHist, ledVars, ledHist,
                       stVars, stHist, encoder_event, encoder_button_event, toggles,
                       draw_balance, since_toggle, last_event, cw_only>>

\* current_screen.update(&mut lcd, &state)
UpdateScreen ==
    LET painted == ScreenUpdate(current_screen, lcd, ticks_max)
    IN  /\ current_screen' = painted.screen
        /\ lcd' = painted.lcd
        /\ draw_calls' = 0
        /\ readout_writes' = painted.writes
        /\ prev_ticks_max' = ticks_max
        /\ prev_tick' = tick
        /\ op' = "update"
        /\ UNCHANGED <<genVars, btnVars, btnHist, encVars, encHist, ledVars, ledHist,
                       stVars, stHist, encoder_event, encoder_button_event, toggles,
                       draw_balance, since_toggle, last_event, cw_only>>

----------------------------------------------------------------------------
(* Initial state: what the constructors build                              *)

InitComponents ==
    \* LongPressButton::new
    /\ state = Depressed
    /\ value = "None"
    /\ pin = FALSE
    /\ run = 0
    /\ idle = 2
    /\ nPress = 0
    /\ nLong = 0
    \* Encoder::new
    /\ previous_state = <<FALSE, FALSE>>
    /\ encoder_value = "None"
    /\ samples = <<>>
    /\ events = <<>>
    \* Led::new
    /\ cycles = 0
    /\ pulse = -1
    \* State::default
    /\ ticks_max = 20
    /\ tick = 0
    /\ fired = FALSE
    /\ calls = 0
    /\ arith_ok = TRUE
    \* main, up to the loop
    /\ current_screen = MainScreen
    /\ lcd = ScreenDraw(MainScreen, Lcd("", <<>>), ticks_max).lcd
    /\ encoder_event = "None"
    /\ encoder_button_event = "None"
    /\ draw_calls = 1
    /\ draw_balance = 1
    /\ readout_writes = 0
    /\ toggles = 0
    /\ prev_ticks_max = ticks_max
    /\ prev_tick = tick
    /\ since_toggle = 0
    /\ last_event = <<"None", "None">>
    /\ cw_only = 0
    /\ op = "new"

\* main.rs: Led<true, CONTROL_RATE_HZ, _> on a push-pull output, which starts low.
InitMainLed ==
    /\ active_low = TRUE
    /\ led_pin = "low"

InitButton ==
    /\ control_rate_hz \in Rates
    /\ InitMainLed
    /\ InitComponents

NextButton == ButtonScan

SpecButton == InitButton /\ [][NextButton]_vars

InitEncoder ==
    /\ control_rate_hz = CONTROL_RATE_HZ
    /\ InitMainLed
    /\ InitComponents

NextEncoder == EncoderScan

SpecEncoder == InitEncoder /\ [][NextEncoder]_vars

\* Led is generic in the polarity and the rate, and is given a line at any level.
InitLed ==
    /\ control_rate_hz \in Rates
    /\ active_low \in BOOLEAN
    /\ led_pin \in {"high", "low"}
    /\ InitComponents

NextLed == BlinkShort \/ BlinkLong \/ LedUpdate \/ LedToggle

SpecLed == InitLed /\ [][NextLed]_vars

InitState ==
    /\ control_rate_hz = CONTROL_RATE_HZ
    /\ InitMainLed
    /\ InitComponents

NextState == IncreaseFreq \/ DecreaseFreq \/ Tick

SpecState == InitState /\ [][NextState]_vars

\* main: the loop runs at LoopRateHz in this model.
Init ==
    /\ control_rate_hz = LoopRateHz
    /\ InitMainLed
    /\ InitComponents

Next == LoopIteration

Spec == Init /\ [][Next]_vars

\* The loop of main never ends and block!(timer.wait()) returns every period: an
\* iteration always follows.
FairSpec == Spec /\ WF_vars(Next)

InitScreens ==
    /\ control_rate_hz = CONTROL_RATE_HZ
    /\ InitMainLed
    /\ InitComponents

NextScreens == HandleEvent \/ Navigate \/ UpdateScreen

SpecScreens == InitScreens /\ [][NextScreens]_vars

----------------
(* Claims on LongPressButton, checked under SpecButton                     *)

\* A hold of n scans takes the detector to Candidate(n - 1) up to
\* n = DEBOUNCE_TICKS + 2, to Pressed(n - DEBOUNCE_TICKS - 3) up to
\* n = DEBOUNCE_TICKS + LONGPRESS_TICKS + 4, and the next scan latches.
LongPressScan    == DEBOUNCE_TICKS + LONGPRESS_TICKS + 5

\* C1 as stated: a hold of exactly DEBOUNCE_TICKS + 1 scans followed by a release
\* yields exactly one Press, on the release scan, and no LongPress.
C1_AsStated ==
    (idle >= 1 /\ run = DEBOUNCE_TICKS + 1) =>
        /\ nPress = 1
        /\ nLong = 0
        /\ (idle = 1 => value = "Press")

\* C1 amended: a hold of exactly DEBOUNCE_TICKS + 3 scans yields no event while it
\* lasts, and the release that follows yields exactly one Press, on the release
\* scan, and no LongPress.
C1_ShortPress ==
    /\ (idle = 0 /\ run <= DEBOUNCE_TICKS + 3) => (nPress = 0 /\ nLong = 0)
    /\ (idle >= 1 /\ run = DEBOUNCE_TICKS + 3) =>
          /\ nPress = 1
          /\ nLong = 0
          /\ (idle = 1 => value = "Press")
          /\ (idle = 2 => value = "None")

\* C1 witness: the release scan after a hold of DEBOUNCE_TICKS + 3 scans, at the
\* control rate of main.rs.
C1_Witness ==
    /\ control_rate_hz = CONTROL_RATE_HZ
    /\ idle = 1
    /\ run = DEBOUNCE_TICKS + 3
    /\ value = "Press"

\* C2 as stated: every hold of n > LONGPRESS_TICKS scans has yielded exactly one
\* LongPress by its n-th scan, and the release and the scans after it add no event.
C2_AsStated ==
    run > LONGPRESS_TICKS => (nLong = 1 /\ nPress = 0)

\* C2 amended: every hold of n >= LONGPRESS_TICKS + DEBOUNCE_TICKS + 5 scans has
\* yielded exactly one LongPress by its n-th scan (on scan
\* LONGPRESS_TICKS + DEBOUNCE_TICKS + 5), and the release and the scans after it
\* until the next press yield no further event.
C2_LongPress ==
    /\ run >= LongPressScan => (nLong = 1 /\ nPress = 0)
    /\ (run = LongPressScan /\ idle = 0) => value = "LongPress"
    /\ (run >= LongPressScan /\ idle >= 1) => value = "None"

\* C2 witness: a hold longer than the long-press threshold has been released.
C2_Witness ==
    /\ control_rate_hz = CONTROL_RATE_HZ
    /\ run > LongPressScan
    /\ idle = 1
    /\ nLong = 1

\* C3: a hold, with the release that ends it, yields at most one event (so at most
\* one LongPress and no Press after a LongPress); StillPressed is entered only from
\* Pressed, on the scan that returns LongPress, and is left only by a scan that
\* reads the button released, which goes to Depressed and returns no event.
C3_OneEventPerHold ==
    [][ /\ nPress' + nLong' <= 1
        /\ (state'.tag = "StillPressed" /\ state.tag # "StillPressed") =>
               (state.tag = "Pressed" /\ pin' /\ value' = "LongPress")
        /\ value' = "LongPress" =>
               (state.tag = "Pressed" /\ state'.tag = "StillPressed")
        /\ (state.tag = "StillPressed" /\ state'.tag # "StillPressed") =>
               (~pin' /\ state' = Depressed /\ value' = "None")
      ]_vars

\* C3 witness: the latched state has just been left by a release.
C3_Witness ==
    /\ state = Depressed
    /\ pin = FALSE
    /\ idle = 1
    /\ nLong = 1
    /\ nPress = 0
    /\ value = "None"

----------------------------------------------------------------------------
(* Claims on Encoder, checked under SpecEncoder                            *)

\* The sample before the i-th scan: (false, false) before the first.
SampleBefore(i) == IF i = 1 THEN <<FALSE, FALSE>> ELSE samples[i - 1]

\* C4: a scan returns Cw exactly when its sample is (true, true) and the sample
\* before it was (false, true), Ccw exactly when its sample is (true, true) and the
\* one before was (true, false), and nothing in every other case; the sample
\* before the first scan counts as (false, false).
C4_Direction ==
    \A i \in 1..Len(samples) :
        /\ events[i] = "Cw" <=>
             (samples[i] = <<TRUE, TRUE>> /\ SampleBefore(i) = <<FALSE, TRUE>>)
        /\ events[i] = "Ccw" <=>
             (samples[i] = <<TRUE, TRUE>> /\ SampleBefore(i) = <<TRUE, FALSE>>)
        /\ events[i] \in {"Cw", "Ccw", "None"}
        /\ Len(events) = Len(samples)

\* C4 witness: both directions have been returned, and a first scan of
\* (true, true) returned nothing.
C4_Witness ==
    /\ Len(samples) >= 1
    /\ samples[1] = <<TRUE, TRUE>>
    /\ events[1] = "None"
    /\ \E i, j \in 1..Len(events) : events[i] = "Cw" /\ events[j] = "Ccw"

\* C5: between two scans that return an event there is a scan whose sample is
\* not (true, true), so two consecutive scans never both return an event;
\* previous_state is the last sample after every scan, event or not.
C5_OneEventPerDetent ==
    /\ \A i, j \in 1..Len(events) :
          (i < j /\ events[i] # "None" /\ events[j] # "None") =>
              \E k \in (i + 1)..(j - 1) : samples[k] # <<TRUE, TRUE>>
    /\ \A i \in 1..(Len(events) - 1) : ~(events[i] # "None" /\ events[i + 1] # "None")
    /\ Len(samples) > 0 => previous_state = samples[Len(samples)]

\* C5 witness: two events, with one scan between them.
C5_Witness ==
    \E i \in 1..Len(events) :
        /\ i + 2 <= Len(events)
        /\ events[i] # "None"
        /\ events[i + 1] = "None"
        /\ events[i + 2] # "None"

----------------------------------------------------------------------------
(* Claims on State, checked under SpecState                                *)

\* C6: in a window that begins at tick = 0 and in which ticks_max does not change,
\* tick() returns false on the first ticks_max calls and true on call
\* ticks_max + 1, which resets tick to 0 and ends the window.
C6_TickPeriod ==
    (op = "tick" /\ calls # -1) =>
        /\ calls \in 1..(ticks_max + 1)
        /\ fired <=> (calls = ticks_max + 1)
        /\ fired => tick = 0
        /\ ~fired => tick = calls

\* C6 witness: a window of the longest period has just ended with a call that
\* returned true.
C6_Witness ==
    /\ op = "tick"
    /\ fired
    /\ ticks_max = 1000
    /\ calls = 1001

\* C7: ticks_max is always a multiple of 20 in [20, 1000], 20 at first;
\* increase_freq sets it to max(20, ticks_max - 20) and decrease_freq to
\* min(1000, ticks_max + 20), so that they change nothing at 20 and at 1000, and
\* no subtraction or addition overflows.
C7_TicksMaxClamp ==
    /\ ticks_max = 20
    /\ [][ /\ ticks_max' \in {20 * k : k \in 1..50}
           /\ arith_ok'
           /\ op' = "increase_freq" => ticks_max' = Max(20, ticks_max - 20)
           /\ op' = "decrease_freq" => ticks_max' = Min(1000, ticks_max + 20)
           /\ (op' = "increase_freq" /\ ticks_max = 20) => ticks_max' = 20
           /\ (op' = "decrease_freq" /\ ticks_max = 1000) => ticks_max' = 1000
           /\ op' = "tick" => ticks_max' = ticks_max
         ]_vars

\* C7 witness: decrease_freq has been called at the cap and has left it there.
C7_Witness ==
    /\ op = "decrease_freq"
    /\ ticks_max = 1000
    /\ arith_ok

----------------------------------------------------------------------------
(* Claims on Led, checked under SpecLed                                    *)

\* C8 as stated: after blink_short() at cycles = 0, the LED is lit after each of
\* the first N = ShortCycles calls of update() and dark after call N + 1 and all
\* later ones.
C8_AsStated ==
    /\ pulse \in 1..ShortCycles => LedActive
    /\ pulse >= ShortCycles + 1 => ~LedActive

\* C8 amended: after blink_short() at cycles = 0, the LED is lit after each of the
\* first N - 1 calls of update() and dark after call N and all later ones, where
\* N = ShortCycles = 25 * max(1, R / 1000).
C8_PulseLength ==
    /\ pulse \in 1..(ShortCycles - 1) => (LedActive /\ cycles = ShortCycles - pulse)
    /\ pulse >= ShortCycles => (~LedActive /\ cycles = 0)

\* C8 witness: the update that ends the pulse has run.
C8_Witness ==
    /\ pulse = ShortCycles
    /\ op = "update"
    /\ ~LedActive

\* C9: blink_short() and blink_long() leave cycles at max(cycles, requested), so
\* never lower; blink_short() inside a longer pulse changes nothing; only
\* update() lowers cycles, by exactly 1 and not below 0.
C9_NeverShortens ==
    [][ /\ op' = "blink_short" => cycles' = Max(cycles, ShortCycles)
        /\ op' = "blink_long" => cycles' = Max(cycles, LongCycles)
        /\ op' \in {"blink_short", "blink_long"} => cycles' >= cycles
        /\ (op' = "blink_short" /\ cycles > ShortCycles) => cycles' = cycles
        /\ cycles' < cycles => (op' = "update" /\ cycles' = cycles - 1)
        /\ cycles' >= 0
      ]_vars

\* C9 witness: blink_short() has been called in the middle of a long pulse.
C9_Witness ==
    /\ op = "blink_short"
    /\ cycles > ShortCycles
    /\ cycles < LongCycles

----------------------------------------------------------------------------
(* Claims on the event loop, checked under Spec                            *)

\* The navigation cycle and the title each screen's draw writes.
NextTag(tag) == IF tag = "Main" THEN "Ticks" ELSE "Main"
TitleOf(tag) == IF tag = "Main" THEN "Main Panel" ELSE "Ticks Panel"

\* C10: the loop is entered on Main after exactly one draw; an iteration whose
\* button scan returns LongPress moves to the next screen of Main -> Ticks -> Main
\* and draws it, once; any other iteration keeps the screen and draws nothing; so
\* the draws so far are always one more than the LongPress events so far.
C10_Navigation ==
    /\ current_screen = MainScreen
    /\ draw_calls = 1
    /\ lcd.title = "Main Panel"
    /\ [][ /\ IF encoder_button_event' = "LongPress"
              THEN /\ current_screen'.tag = NextTag(current_screen.tag)
                   /\ draw_calls' = 1
                   /\ lcd'.title = TitleOf(current_screen'.tag)
              ELSE /\ current_screen'.tag = current_screen.tag
                   /\ draw_calls' = 0
                   /\ lcd'.title = lcd.title
           /\ draw_balance' = 1
           /\ lcd'.title = TitleOf(current_screen'.tag)
         ]_vars

\* C10 witness: a second LongPress has brought the machine back to Main, which
\* was drawn in that iteration.
C10_Witness ==
    /\ op = "loop"
    /\ encoder_button_event = "LongPress"
    /\ current_screen = MainScreen
    /\ draw_calls = 1
    /\ lcd = Lcd("Main Panel", <<>>)

\* C11 as stated: a change of ticks_max on Ticks is on the display by the end of
\* the next iteration at the latest: an iteration that begins and ends on Ticks
\* and does not change ticks_max ends with the readout showing ticks_max.
C11_AsStated ==
    [][ (/\ op' = "loop"
         /\ current_screen.tag = "Ticks"
         /\ current_screen'.tag = "Ticks"
         /\ ticks_max' = ticks_max)
        => lcd'.readout = Format4(ticks_max') ]_vars

\* C12 as stated: a Cw event handled on Ticks raises ticks_max by 20.
C12_AsStated ==
    [][ (op' = "loop" /\ current_screen.tag = "Ticks" /\ encoder_event' = "Cw")
        => ticks_max' = ticks_max + 20 ]_vars

\* C12 amended: a Cw event handled on Ticks lowers ticks_max by 20, but not
\* below 20: ticks_max becomes max(20, ticks_max - 20).
C12_ClockwiseLowers ==
    [][ (op' = "loop" /\ current_screen.tag = "Ticks" /\ encoder_event' = "Cw")
        => /\ ticks_max' = Max(20, ticks_max - 20)
           /\ ticks_max' <= ticks_max
           /\ ticks_max >= 40 => ticks_max' = ticks_max - 20 ]_vars

\* C12 witness: a Cw event on Ticks has taken ticks_max from 40 to 20.
C12_Witness ==
    /\ op = "loop"
    /\ current_screen.tag = "Ticks"
    /\ encoder_event = "Cw"
    /\ prev_ticks_max = 40
    /\ ticks_max = 20

----------------------------------------------------------------------------
(* Claims on the screens, checked under SpecScreens                        *)

\* C13: on Ticks a Cw event sets ticks_max to max(20, ticks_max - 20) and a Ccw
\* event sets it to min(1000, ticks_max + 20); from the initial ticks_max = 20,
\* Cw events alone (three of them, or any number) leave ticks_max = 20.
C13_Routing ==
    [][ op' = "handle_input" =>
          /\ (current_screen.tag = "Ticks" /\ last_event' = <<"Encoder", "Cw">>)
                => ticks_max' = Max(20, ticks_max - 20)
          /\ (current_screen.tag = "Ticks" /\ last_event' = <<"Encoder", "Ccw">>)
                => ticks_max' = Min(1000, ticks_max + 20)
          /\ cw_only' >= 0 => ticks_max' = 20
          /\ arith_ok'
      ]_vars

\* C13 witness: three Cw events and no Ccw event have been handled, the last of
\* them on Ticks, and ticks_max is 20.
C13_Witness ==
    /\ op = "handle_input"
    /\ current_screen.tag = "Ticks"
    /\ last_event = <<"Encoder", "Cw">>
    /\ cw_only = CwCount
    /\ ticks_max = 20

----------------------------------------------------------------------------
(* More claims on LongPressButton, checked under SpecButton                *)

\* The transition table of the specification: (state, pressed) -> (next, event).
TableNext(st, pressed) ==
    IF pressed
    THEN IF st.tag = "Depressed" THEN <<Candidate(0), "None">>
         ELSE IF st.tag = "Candidate"
              THEN (IF st.i <= DEBOUNCE_TICKS THEN <<Candidate(st.i + 1), "None">>
                                              ELSE <<Pressed(0), "None">>)
         ELSE IF st.tag = "Pressed"
              THEN (IF st.i <= LONGPRESS_TICKS THEN <<Pressed(st.i + 1), "None">>
                                               ELSE <<StillPressed, "LongPress">>)
         ELSE <<StillPressed, "None">>
    ELSE IF st.tag = "Pressed" THEN <<Depressed, "Press">>
                               ELSE <<Depressed, "None">>

\* C14: every scan takes the transition of the table: Released+pressed ->
\* Candidate(0); Candidate(i)+pressed -> Candidate(i+1) if i <= DEBOUNCE_TICKS, else
\* Held(0); Held(i)+pressed -> Held(i+1) if i <= LONGPRESS_TICKS, else HeldLatched
\* with LongPress; HeldLatched+pressed -> HeldLatched; Held+released -> Released
\* with Press; any other state + released -> Released; no other event.
C14_TransitionTable ==
    [][ op' = "scan" => <<state', value'>> = TableNext(state, pin') ]_vars

\* C14 witness: the scan that latches a long press at the control rate of main.rs.
C14_Witness ==
    /\ control_rate_hz = CONTROL_RATE_HZ
    /\ state = StillPressed
    /\ value = "LongPress"
    /\ run = LongPressScan
    /\ idle = 0

\* C17: Press is returned only by a scan that reads the button released and finds
\* the detector in Pressed, so after a hold that went through the whole Candidate
\* phase (at least DEBOUNCE_TICKS + 3 pressed scans); a hold that ends while the
\* detector is in Candidate returns no event and leaves it in Depressed.
C17_DebouncedPress ==
    [][ /\ value' = "Press" =>
              (~pin' /\ state.tag = "Pressed" /\ run' >= DEBOUNCE_TICKS + 3)
        /\ (op' = "scan" /\ state.tag = "Candidate" /\ ~pin') =>
              /\ value' = "None"
              /\ state' = Depressed
              /\ nPress' = 0
              /\ nLong' = 0
              /\ run' <= DEBOUNCE_TICKS + 2
      ]_vars

\* C17 witness: the longest hold that ends in Candidate has been released.
C17_Witness ==
    /\ state = Depressed
    /\ idle = 1
    /\ run = DEBOUNCE_TICKS + 2
    /\ value = "None"
    /\ nPress = 0

----------------------------------------------------------------------------
(* More claims on the event loop, checked under Spec and FairSpec          *)

\* C15: in every iteration the inputs are scanned first, the events of that scan
\* are handled by the screen that was active when the iteration began, the screen
\* is then painted with the ticks_max the events left, and tick() runs after all
\* of it: it wraps exactly when the counter has reached the ticks_max of after
\* the iteration's events, never the one of before them.
C15_LoopOrder ==
    [][ op' = "loop" =>
          /\ ticks_max' = IF current_screen.tag = "Ticks" /\ encoder_event' = "Cw"
                           THEN Max(20, ticks_max - 20)
                           ELSE IF current_screen.tag = "Ticks" /\ encoder_event' = "Ccw"
                           THEN Min(1000, ticks_max + 20)
                           ELSE ticks_max
          /\ ticks_max' # ticks_max => encoder_event' # "None"
          /\ readout_writes' = 1 => lcd'.readout = Format4(ticks_max')
          /\ fired' <=> tick >= ticks_max'
          /\ tick' = IF tick >= ticks_max' THEN 0 ELSE tick + 1
      ]_vars

\* C15 witness: a Cw event lowered ticks_max from 40 to 20 in an iteration that
\* began with the counter between the two, and tick() fired in that iteration.
C15_Witness ==
    /\ op = "loop"
    /\ encoder_event = "Cw"
    /\ prev_ticks_max = 40
    /\ ticks_max = 20
    /\ prev_tick >= 20
    /\ prev_tick < 40
    /\ fired

\* C18: after every iteration 0 <= tick <= ticks_max; when the iteration lowered
\* ticks_max below the counter, tick() fired and reset the counter in it.
C18_TickInRange ==
    /\ tick >= 0
    /\ tick <= ticks_max
    /\ (op = "loop" /\ prev_tick > ticks_max) => (fired /\ tick = 0)

\* C18 witness: an iteration began with the counter above the ticks_max that its
\* Cw event left, and ended with the counter reset.
C18_Witness ==
    /\ op = "loop"
    /\ prev_tick > ticks_max
    /\ ticks_max < prev_ticks_max
    /\ tick = 0

\* C19: while the loop keeps iterating the LED is toggled again and again; the
\* LED pin changes in an iteration if and only if tick() returned true in it; and
\* the iterations since the last toggle never exceed ticks_max, which is at most
\* 1000.
C19_Heartbeat ==
    /\ []<>(op = "loop" /\ toggles = 1)
    /\ [][ op' = "loop" => (led_pin' # led_pin <=> fired') ]_vars
    /\ [](since_toggle <= ticks_max /\ ticks_max <= 1000)

\* C19 witness: a toggle that ends the longest run of iterations without one.
C19_Witness ==
    /\ op = "loop"
    /\ toggles = 1
    /\ fired
    /\ since_toggle = 0
    /\ prev_tick = MaxTicksMax
    /\ ticks_max = MaxTicksMax

----------------------------------------------------------------------------
(* More claims on the screens, checked under SpecScreens                   *)

\* C16: update writes the readout only when the screen is Ticks with redraw_ticks
\* set, and clears the flag in the same call, so an update that follows with
\* nothing dirtied writes nothing and leaves the display as it is; entering Ticks
\* writes the readout exactly once and leaves the flag cleared; update on Main
\* never writes.
C16_UpdateIdempotent ==
    /\ [](current_screen.tag = "Ticks" => ~current_screen.redraw_ticks)
    /\ [][ /\ op' = "update" =>
                /\ readout_writes' = IF /\ current_screen.tag = "Ticks"
                                        /\ current_screen.redraw_ticks
                                     THEN 1 ELSE 0
                /\ readout_writes' = 0 => lcd' = lcd
                /\ current_screen' = IF current_screen.tag = "Ticks"
                                     THEN TicksScreen(FALSE) ELSE current_screen
           /\ (op' = "update" /\ current_screen.tag = "Main") =>
                (readout_writes' = 0 /\ lcd' = lcd)
           /\ (op' = "draw" /\ current_screen.tag = "Main") =>
                /\ readout_writes' = 1
                /\ current_screen' = TicksScreen(FALSE)
                /\ lcd' = Lcd("Ticks Panel", Format4(ticks_max))
      ]_vars

\* C16 witness: Ticks has been entered and an update after it wrote nothing.
C16_Witness ==
    /\ op = "update"
    /\ current_screen = TicksScreen(FALSE)
    /\ readout_writes = 0
    /\ lcd.title = "Ticks Panel"
    /\ lcd.readout = Format4(ticks_max)

\* C20: an event handled while Main is active leaves ticks_max as it was; a
\* button event leaves ticks_max and tick as they were on either screen; so
\* ticks_max changes only by an encoder event handled while Ticks is active.
C20_RoutingFrame ==
    [][ op' = "handle_input" =>
          /\ current_screen.tag = "Main" => ticks_max' = ticks_max
          /\ last_event'[1] = "EncoderButton" =>
                (ticks_max' = ticks_max /\ tick' = tick)
          /\ ticks_max' # ticks_max =>
                (current_screen.tag = "Ticks" /\ last_event'[1] = "Encoder")
          /\ tick' = tick
      ]_vars

\* C20 witness: a Cw event was handled on Main with ticks_max above its floor,
\* and ticks_max is what it was.
C20_Witness ==
    /\ op = "handle_input"
    /\ current_screen.tag = "Main"
    /\ last_event = <<"Encoder", "Cw">>
    /\ prev_ticks_max = 40
    /\ ticks_max = 40

=============================================================================
